---- MODULE Spec2Model ----
(***************************************************************************)
(* Model of the home-data pipeline of septic_api:                          *)
(*   services/home_data_svc/base.py  (HomeDataSvc, HouseCanaryHomeDataSvc) *)
(*   common/mappings.py              (generic schema enums)                *)
(*   septic_api/views.py             (HomeDataViewSet)                     *)
(* A python dict is a TLA+ function whose domain is its key set.  A call   *)
(* that may raise yields a record [err, val]: err is the exception class   *)
(* ("none" when the call returns) and val the returned value.              *)
(***************************************************************************)
EXTENDS Integers, Sequences, FiniteSets, TLC

VARIABLES expected_fields, data, response, pc, err, trace, calls, data_before,
          fetched_data, parsed_data, normalized_data,
          data_with_constructed_fields, pruned_data

vars == <<expected_fields, data, response, pc, err, trace, calls, data_before,
          fetched_data, parsed_data, normalized_data,
          data_with_constructed_fields, pruned_data>>

\* Number of build_home_data invocations explored on one service instance.
MaxCalls == 2

EmptyDict == <<>>

Ok(v) == [err |-> "none", val |-> v]

Raise(e) == [err |-> e, val |-> EmptyDict]

\* dict.update(other): keys of other win.
DictUpdate(d, other) ==
    [k \in (DOMAIN d) \cup (DOMAIN other) |-> IF k \in DOMAIN other THEN other[k] ELSE d[k]]

\* dict.get(key, default)
DictGet(d, key, default) == IF key \in DOMAIN d THEN d[key] ELSE default

\* {key: val for key, val in d.items() if key in keys}
DictFilter(d, keys) == [k \in (DOMAIN d) \cap keys |-> d[k]]

---------------------------------------------------------------------------
\* common/mappings.py

GenericSewerMappings ==
    {"septic", "municipal", "storm", "type_unknown", "existence_unknown", "no_sewer"}

\* Member names of GenericFieldsToMappings.
GenericFieldsToMappings == {"sewer"}

---------------------------------------------------------------------------
\* services/home_data_svc/base.py, module level

\* Values of the enum HouseCanarySewerPropertyDetails.
HouseCanarySewerPropertyDetails == {"Municipal", "Septic", "Storm", "None", "Yes"}

\* Member names of the enum HouseCanaryFields.
HouseCanaryFields == {"sewer"}

\* provider field name -> name of the generic field
house_canary_field_to_generic == [f \in {"sewer"} |-> "sewer"]

house_canary_sewer_to_generic ==
    ("Municipal" :> "municipal") @@ ("Septic" :> "septic") @@ ("Storm" :> "storm")
    @@ ("None" :> "no_sewer") @@ ("Yes" :> "type_unknown")

fields_to_retrieve == {"sewer"}

constructed_fields == <<"has_septic">>

\* build_home_data with the raw payload saved after parsing.
build_home_data_stages_SaveAfterParse ==
    <<"fetch", "parse", "save", "normalize", "construct", "prune", "assign">>

\* Statement order of build_home_data; the last entry assigns self.data and returns.
build_home_data_stages ==
    <<"fetch", "save", "parse", "normalize", "construct", "prune", "assign">>

---------------------------------------------------------------------------
\* Inputs

\* Field names a caller may pass in `fields` (request.GET.getlist('fields')).
RequestableFields == {"sewer", "has_septic", "lot_size"}

\* A provider value that is no member of HouseCanarySewerPropertyDetails.
UnknownProviderCode == "Unknown-Provider-Code"

ProviderSewerValues == HouseCanarySewerPropertyDetails \cup {UnknownProviderCode}

\* Keys the provider may put into the 'property' and 'assessment' objects.
PayloadKeys == {"sewer", "lot_size"}

\* The objects the provider may return under 'property' or 'assessment'.
PayloadObjects ==
    { [k \in ks |-> IF k = "sewer" THEN v ELSE "5000"] :
        ks \in SUBSET PayloadKeys, v \in ProviderSewerValues }

\* The 'result' objects: each of 'property' and 'assessment' present or not.
ResultObjects ==
    {EmptyDict}
    \cup { "property" :> p : p \in PayloadObjects }
    \cup { "assessment" :> a : a \in PayloadObjects }
    \cup { ("property" :> p) @@ ("assessment" :> a) : p \in PayloadObjects, a \in PayloadObjects }

\* JSON bodies of the provider: with and without the expected containers.
Payloads ==
    {EmptyDict}
    \cup {"property/details" :> EmptyDict}
    \cup { "property/details" :> ("result" :> r) : r \in ResultObjects }

\* What requests.get can do: fail in transit, or answer with a status and a body.
Responses ==
    { [kind |-> k, status |-> 0, body |-> EmptyDict] : k \in {"ConnectionError", "Timeout"} }
    \cup { [kind |-> "ok", status |-> s, body |-> EmptyDict] : s \in {404, 500} }
    \cup { [kind |-> "ok", status |-> 200, body |-> b] : b \in Payloads }

NoResponse == [kind |-> "none", status |-> 0, body |-> EmptyDict]

\* self.data: the class attribute None until build_home_data assigns a dict.
NoneData == [is_none |-> TRUE, val |-> EmptyDict]

SomeData(d) == [is_none |-> FALSE, val |-> d]

---------------------------------------------------------------------------
\* Methods

\* fetch_home_data without the call of raise_for_status.
fetch_home_data_NoStatusCheck(resp) ==
    IF resp.kind # "ok" THEN Raise(resp.kind)
    ELSE Ok(resp.body)

\* requests.get raises on a transport failure, raise_for_status on 4xx/5xx.
fetch_home_data(resp) ==
    IF resp.kind # "ok" THEN Raise(resp.kind)
    ELSE IF resp.status >= 400 THEN Raise("HTTPError")
    ELSE Ok(resp.body)

\* A validator that accepts every value.
field_validator_AcceptAll(value) == TRUE

\* HouseCanarySewerPropertyDetails(value): ValueError unless value is a member value.
field_validator(value) == value \in HouseCanarySewerPropertyDetails

\* parse_home_data without the restriction to fields_to_retrieve.
parse_home_data_Unfiltered(home_data) ==
    IF "property/details" \notin DOMAIN home_data THEN Raise("KeyError")
    ELSE IF "result" \notin DOMAIN home_data["property/details"] THEN Raise("KeyError")
    ELSE LET result == home_data["property/details"]["result"]
             property_data == DictGet(result, "property", EmptyDict)
             property_assessment == DictGet(result, "assessment", EmptyDict)
         IN  Ok(DictUpdate(property_data, property_assessment))

parse_home_data(home_data) ==
    IF "property/details" \notin DOMAIN home_data THEN Raise("KeyError")
    ELSE IF "result" \notin DOMAIN home_data["property/details"] THEN Raise("KeyError")
    ELSE LET result == home_data["property/details"]["result"]
             property_data == DictGet(result, "property", EmptyDict)
             property_assessment == DictGet(result, "assessment", EmptyDict)
             merged == DictUpdate(property_data, property_assessment)
         IN  Ok(DictFilter(merged, fields_to_retrieve))

normalize_home_data(home_data) ==
    IF \E f \in DOMAIN home_data : f \notin HouseCanaryFields THEN Raise("KeyError")
    ELSE IF \E f \in DOMAIN home_data : ~field_validator(home_data[f]) THEN Raise("ValueError")
    ELSE Ok([n \in {house_canary_field_to_generic[f] : f \in DOMAIN home_data} |->
                LET f == CHOOSE g \in DOMAIN home_data : house_canary_field_to_generic[g] = n
                IN  DictGet(house_canary_sewer_to_generic, home_data[f], "existence_unknown")])

\* has_septic as a test for the presence of any sewer.
has_septic_AnySewer(d) ==
    IF "sewer" \notin DOMAIN d THEN Raise("KeyError")
    ELSE Ok(d["sewer"] # "no_sewer")

\* data[sewer_key] raises KeyError when the key is missing.
has_septic(d) ==
    IF "sewer" \notin DOMAIN d THEN Raise("KeyError")
    ELSE Ok(d["sewer"] = "septic")

\* The exceptions the try block of _build_constructed_fields catches.
CaughtByConstructedFields == {"AttributeError"}

\* constructed_fields has the single entry has_septic; getattr(self, 'has_septic') succeeds.
_build_constructed_fields(nd) ==
    LET r == has_septic(nd)
    IN  IF r.err = "none" THEN Ok(DictUpdate(nd, constructed_fields[1] :> r.val))
        ELSE IF r.err \in CaughtByConstructedFields THEN Ok(nd)
        ELSE Raise(r.err)

\* build_home_data without the projection.
prune_KeepAll(d, fields) == d

\* {key: val for key, val in data.items() if key in self.expected_fields}
prune(d, fields) == DictFilter(d, fields)

---------------------------------------------------------------------------
\* State machine

\* HouseCanaryHomeDataSvc(expected_fields=..., address=..., zip_code=...)
Init ==
    /\ expected_fields \in SUBSET RequestableFields
    /\ data = NoneData
    /\ data_before = NoneData
    /\ response = NoResponse
    /\ pc = "idle"
    /\ err = "none"
    /\ trace = <<>>
    /\ calls = 0
    /\ fetched_data = EmptyDict
    /\ parsed_data = EmptyDict
    /\ normalized_data = EmptyDict
    /\ data_with_constructed_fields = EmptyDict
    /\ pruned_data = EmptyDict

NextStage == build_home_data_stages[Len(trace) + 1]

AtStage(s) ==
    /\ pc = "running"
    /\ Len(trace) < Len(build_home_data_stages)
    /\ NextStage = s

\* The outcome r of a stage: go on, or leave build_home_data with the exception.
Advance(s, r) ==
    /\ trace' = Append(trace, s)
    /\ err' = r.err
    /\ pc' = IF r.err = "none" THEN "running" ELSE "raised"

\* A caller enters build_home_data on the instance.
Call ==
    /\ pc \in {"idle", "returned", "raised"}
    /\ calls < MaxCalls
    /\ calls' = calls + 1
    /\ pc' = "running"
    /\ err' = "none"
    /\ trace' = <<>>
    /\ data_before' = data
    /\ response' = NoResponse
    /\ fetched_data' = EmptyDict
    /\ parsed_data' = EmptyDict
    /\ normalized_data' = EmptyDict
    /\ data_with_constructed_fields' = EmptyDict
    /\ pruned_data' = EmptyDict
    /\ UNCHANGED <<expected_fields, data>>

Fetch ==
    /\ AtStage("fetch")
    /\ \E resp \in Responses :
         LET r == fetch_home_data(resp)
         IN  /\ response' = resp
             /\ fetched_data' = r.val
             /\ Advance("fetch", r)
    /\ UNCHANGED <<expected_fields, data, calls, data_before, parsed_data, normalized_data,
                   data_with_constructed_fields, pruned_data>>

\* save_to_file is `pass`.
Save ==
    /\ AtStage("save")
    /\ Advance("save", Ok(EmptyDict))
    /\ UNCHANGED <<expected_fields, data, response, calls, data_before, fetched_data,
                   parsed_data, normalized_data, data_with_constructed_fields, pruned_data>>

Parse ==
    /\ AtStage("parse")
    /\ LET r == parse_home_data(fetched_data)
       IN  /\ parsed_data' = r.val
           /\ Advance("parse", r)
    /\ UNCHANGED <<expected_fields, data, response, calls, data_before, fetched_data,
                   normalized_data, data_with_constructed_fields, pruned_data>>

Normalize ==
    /\ AtStage("normalize")
    /\ LET r == normalize_home_data(parsed_data)
       IN  /\ normalized_data' = r.val
           /\ Advance("normalize", r)
    /\ UNCHANGED <<expected_fields, data, response, calls, data_before, fetched_data,
                   parsed_data, data_with_constructed_fields, pruned_data>>

Construct ==
    /\ AtStage("construct")
    /\ LET r == _build_constructed_fields(normalized_data)
       IN  /\ data_with_constructed_fields' = r.val
           /\ Advance("construct", r)
    /\ UNCHANGED <<expected_fields, data, response, calls, data_before, fetched_data,
                   parsed_data, normalized_data, pruned_data>>

Prune ==
    /\ AtStage("prune")
    /\ pruned_data' = prune(data_with_constructed_fields, expected_fields)
    /\ Advance("prune", Ok(EmptyDict))
    /\ UNCHANGED <<expected_fields, data, response, calls, data_before, fetched_data,
                   parsed_data, normalized_data, data_with_constructed_fields>>

\* self.data = pruned_data; return self.data
Assign ==
    /\ AtStage("assign")
    /\ data' = SomeData(pruned_data)
    /\ trace' = Append(trace, "assign")
    /\ pc' = "returned"
    /\ UNCHANGED <<expected_fields, response, err, calls, data_before, fetched_data,
                   parsed_data, normalized_data, data_with_constructed_fields, pruned_data>>

Next ==
    \/ Call
    \/ Fetch
    \/ Save
    \/ Parse
    \/ Normalize
    \/ Construct
    \/ Prune
    \/ Assign

Spec == Init /\ [][Next]_vars

---------------------------------------------------------------------------
\* Properties

SpecifiedOrder ==
    <<"fetch", "save", "parse", "normalize", "construct", "prune", "assign">>

\* The stage named s has been entered in the current invocation.
Ran(s) == \E i \in 1..Len(trace) : trace[i] = s

DeclaredUniverse == {"Municipal", "Septic", "Storm", "None", "Yes"}

FetchSucceeded == Ran("fetch") /\ response.kind = "ok" /\ response.status = 200

FetchFailed ==
    \/ response.kind \in {"ConnectionError", "Timeout"}
    \/ response.kind = "ok" /\ response.status >= 400

ContainerPresent ==
    /\ "property/details" \in DOMAIN response.body
    /\ "result" \in DOMAIN response.body["property/details"]

\* Keys the body carries in the object stored under part ('property' or 'assessment').
PartKeys(part) ==
    IF ContainerPresent /\ part \in DOMAIN response.body["property/details"]["result"]
    THEN DOMAIN response.body["property/details"]["result"][part]
    ELSE {}

BodyKeys == PartKeys("property") \cup PartKeys("assessment")

\* C1: every provider sewer value handed to normalize_home_data is normalized without
\* an exception: a value with a table entry becomes the mapped canonical value, a value
\* without one becomes existence_unknown.
C1_NormalizationTotal ==
    (Ran("normalize") /\ "sewer" \in DOMAIN parsed_data) =>
        /\ err = "none"
        /\ "sewer" \in DOMAIN normalized_data
        /\ normalized_data["sewer"] =
              CASE parsed_data["sewer"] = "Municipal" -> "municipal"
                [] parsed_data["sewer"] = "Septic" -> "septic"
                [] parsed_data["sewer"] = "Storm" -> "storm"
                [] parsed_data["sewer"] = "None" -> "no_sewer"
                [] parsed_data["sewer"] = "Yes" -> "type_unknown"
                [] OTHER -> "existence_unknown"

\* C2: when build_home_data completes, the key set of the result (self.data and the
\* pruned mapping) is exactly the requested fields intersected with the canonical fields
\* produced by normalization together with the derived fields that were computed; no
\* key outside the requested fields appears.
C2_ProjectionKeySet ==
    pc = "returned" =>
        LET produced == DOMAIN normalized_data
            derived == {"has_septic"} \cap DOMAIN data_with_constructed_fields
        IN  /\ ~data.is_none
            /\ DOMAIN data.val = expected_fields \cap (produced \cup derived)
            /\ DOMAIN pruned_data = DOMAIN data.val
            /\ DOMAIN data.val \subseteq expected_fields

C2_Witness ==
    /\ pc = "returned"
    /\ expected_fields = {"sewer", "lot_size"}
    /\ "lot_size" \in BodyKeys
    /\ DOMAIN data_with_constructed_fields = {"sewer", "has_septic"}
    /\ DOMAIN data.val = {"sewer"}

\* C3: once the derive stage has run, a missing sewer dependency means has_septic was
\* skipped without an error, and a present sewer means has_septic was computed.
C3_DerivedFieldHandling ==
    Ran("construct") =>
        IF "sewer" \in DOMAIN normalized_data
        THEN "has_septic" \in DOMAIN data_with_constructed_fields
        ELSE /\ err = "none"
             /\ pc # "raised"
             /\ "has_septic" \notin DOMAIN data_with_constructed_fields

\* C4: in a completed run that requested sewer and has_septic and parsed a sewer value,
\* has_septic is true exactly when the normalized sewer is septic; Septic gives
\* septic/true and Yes gives type_unknown/false.
C4_HasSepticEndToEnd ==
    (/\ pc = "returned"
     /\ {"sewer", "has_septic"} \subseteq expected_fields
     /\ "sewer" \in DOMAIN parsed_data) =>
        /\ {"sewer", "has_septic"} \subseteq DOMAIN data.val
        /\ data.val["sewer"] = normalized_data["sewer"]
        /\ data.val["has_septic"] = (data.val["sewer"] = "septic")
        /\ parsed_data["sewer"] = "Septic" =>
              (data.val["sewer"] = "septic" /\ data.val["has_septic"] = TRUE)
        /\ parsed_data["sewer"] = "Yes" =>
              (data.val["sewer"] = "type_unknown" /\ data.val["has_septic"] = FALSE)

C4_Witness ==
    /\ pc = "returned"
    /\ {"sewer", "has_septic"} \subseteq expected_fields
    /\ "sewer" \in DOMAIN parsed_data
    /\ parsed_data["sewer"] = "Yes"
    /\ data.val["has_septic"] = FALSE
    /\ data.val["sewer"] = "type_unknown"

\* C5: when the fetch fails (transport failure, timeout, status 4xx/5xx) the invocation
\* has raised the fetch error, no stage after fetch was entered, no intermediate result
\* exists and self.data is what it was before the call (None on a fresh instance).
C5_FetchFailureAborts ==
    FetchFailed =>
        /\ pc = "raised"
        /\ err = (IF response.kind = "ok" THEN "HTTPError" ELSE response.kind)
        /\ trace = <<"fetch">>
        /\ data = data_before
        /\ calls = 1 => data.is_none
        /\ parsed_data = EmptyDict /\ normalized_data = EmptyDict
        /\ data_with_constructed_fields = EmptyDict /\ pruned_data = EmptyDict

C5_Witness ==
    /\ response.kind = "ok"
    /\ response.status = 500
    /\ pc = "raised"
    /\ calls = 2
    /\ ~data.is_none

\* C6: with an empty requested field set, every payload of a successful fetch whose
\* container is present leads to the empty mapping and never to an error.
C6_EmptyRequestEmptyResult ==
    (expected_fields = {} /\ FetchSucceeded /\ ContainerPresent) =>
        /\ pc # "raised"
        /\ pc = "returned" => data.val = EmptyDict

C9_SchemaDriftDistinct ==
    (pc \in {"returned", "raised"} /\ FetchSucceeded) =>
        /\ ~ContainerPresent => (pc = "raised" /\ err # "none")
        /\ (ContainerPresent /\ "sewer" \notin BodyKeys) => (pc = "returned" /\ err = "none")

\* C10: the stages of an invocation are entered in the fixed order, each at most once and
\* none skipped; a stage is entered only while no error has occurred, an error ends the
\* invocation, and self.data changes only in the step after projection.
C10_StageOrder ==
    /\ [](/\ Len(trace) <= Len(SpecifiedOrder)
          /\ trace = SubSeq(SpecifiedOrder, 1, Len(trace))
          /\ (err # "none") <=> (pc = "raised")
          /\ (pc = "returned") <=> (trace = SpecifiedOrder))
    /\ [][/\ (trace' # trace /\ trace' # <<>>) =>
                (err = "none" /\ pc = "running" /\ trace' = Append(trace, SpecifiedOrder[Len(trace) + 1]))
          /\ data' # data => (trace = SubSeq(SpecifiedOrder, 1, 6) /\ err = "none")]_vars

C10_Witness ==
    /\ pc = "returned"
    /\ trace = <<"fetch", "save", "parse", "normalize", "construct", "prune", "assign">>
    /\ calls = 2
    /\ data # data_before

====
